---- MODULE Spec2Model ----
(***************************************************************************)
(* Model of slink's connection layer (src/conn.rs): the persisted host     *)
(* slot (set_host / get_host) and the construction of the argument         *)
(* vectors handed to ssh, scp and sudo.                                    *)
(*                                                                         *)
(* A string is a sequence of one-character strings, so that trimming,      *)
(* formatting and parsing are computed character by character.            *)
(* One invocation of the tool is one process: from an idle state an action *)
(* runs one whole call of a public function of conn.rs and records what it *)
(* did; Exit ends the process, after which only the persisted slot (and    *)
(* the history variable lastSet) remains.  The environment failure that   *)
(* hits the call (if any) is an input of the action.  A write is all-or-error: File::write of a few bytes to a       *)
(* freshly truncated regular file is taken to write the whole buffer.      *)
(***************************************************************************)
EXTENDS Integers, Sequences, FiniteSets, TLC

VARIABLES config, lastSet, op, inp, hostRes, res, execs, prog, args

vars == <<config, lastSet, op, inp, hostRes, res, execs, prog, args>>

(***************************************************************************)
(* Bounds                                                                  *)
(***************************************************************************)
MaxHostLen == 2
MaxPorts == 2

(***************************************************************************)
(* Strings                                                                 *)
(***************************************************************************)
RECURSIVE StringsUpTo(_, _)
StringsUpTo(chars, n) ==
    IF n = 0 THEN {<<>>}
    ELSE LET shorter == StringsUpTo(chars, n - 1)
         IN  shorter \cup {Append(s, c) : s \in shorter, c \in chars}

RECURSIVE ListsUpTo(_, _)
ListsUpTo(elems, n) ==
    IF n = 0 THEN {<<>>}
    ELSE LET shorter == ListsUpTo(elems, n - 1)
         IN  shorter \cup {Append(l, e) : l \in shorter, e \in elems}

NoStr == <<>>

IsWhitespace(c) == c \in {" ", "\n", "\t"}

RECURSIVE trim_start(_)
trim_start(s) ==
    IF s = <<>> THEN s
    ELSE IF IsWhitespace(Head(s)) THEN trim_start(Tail(s)) ELSE s

RECURSIVE trim_end(_)
trim_end(s) ==
    IF s = <<>> THEN s
    ELSE IF IsWhitespace(s[Len(s)]) THEN trim_end(SubSeq(s, 1, Len(s) - 1))
         ELSE s

\* str::trim: strip leading and trailing whitespace
trim(s) == trim_end(trim_start(s))

(***************************************************************************)
(* Results.  tag is "Ok", one of the variants of Error, "Panic" for a      *)
(* call that unwinds instead of returning, or "NotCalled".                 *)
(***************************************************************************)
Ok(v) == [tag |-> "Ok", val |-> v]
Err(e) == [tag |-> e, val |-> NoStr]
Panic == [tag |-> "Panic", val |-> NoStr]
NotCalled == [tag |-> "NotCalled", val |-> NoStr]

ErrorTags == {"NoConfigFile", "FailedConfigWrite", "FailedConfigRead",
              "ProcessError"}

(***************************************************************************)
(* HostStore                                                               *)
(***************************************************************************)
NoFile == [exists |-> FALSE, data |-> NoStr]

\* format!("{}\n", host)
HostFileContents(host) == Append(host, "\n")

\* xdg_dirs().unwrap(): panics when the base directories cannot be resolved
xdg_dirs(fault) == fault # "xdg"

\* set_host opening the file for append instead of truncating it
set_host_append(cfg, host, fault) ==
    IF ~xdg_dirs(fault) THEN [res |-> Panic, config |-> cfg]
    ELSE IF fault = "place_config" THEN [res |-> Panic, config |-> cfg]
    ELSE IF fault = "create"
         THEN [res |-> Err("FailedConfigWrite"), config |-> cfg]
    ELSE IF fault = "write"
         THEN [res |-> Err("FailedConfigWrite"),
               config |-> [exists |-> TRUE, data |-> cfg.data]]
    ELSE [res |-> Ok(NoStr),
          config |-> [exists |-> TRUE,
                      data |-> cfg.data \o HostFileContents(host)]]

set_host(cfg, host, fault) ==
    IF ~xdg_dirs(fault) THEN [res |-> Panic, config |-> cfg]
    ELSE IF fault = "place_config" THEN [res |-> Panic, config |-> cfg]
    ELSE IF fault = "create"
         THEN [res |-> Err("FailedConfigWrite"), config |-> cfg]
    ELSE IF fault = "write"
         THEN [res |-> Err("FailedConfigWrite"),
               config |-> [exists |-> TRUE, data |-> NoStr]]
    ELSE [res |-> Ok(NoStr),
          config |-> [exists |-> TRUE, data |-> HostFileContents(host)]]

\* get_host treating a missing file as an empty one
get_host_default(cfg, fault) ==
    IF ~xdg_dirs(fault) THEN Panic
    ELSE IF ~cfg.exists THEN Ok(NoStr)
    ELSE IF fault \in {"open", "read"} THEN Err("FailedConfigRead")
    ELSE Ok(trim(cfg.data))

get_host(cfg, fault) ==
    IF ~xdg_dirs(fault) THEN Panic
    ELSE IF ~cfg.exists THEN Err("NoConfigFile")
    ELSE IF fault \in {"open", "read"} THEN Err("FailedConfigRead")
    ELSE Ok(trim(cfg.data))

(***************************************************************************)
(* ConnectionBuilder                                                       *)
(***************************************************************************)
SSH == <<"s","s","h">>
SUDO == <<"s","u","d","o">>
SCP == <<"s","c","p">>
DashN == <<"-","N">>
DashL == <<"-","L">>
DashT == <<"-","t">>
DashQ == <<"-","q">>
Colon == <<":">>
Loopback == <<":","1","2","7",".","0",".","0",".","1",":">>
ControlMasterAuto ==
    <<"-","o","C","o","n","t","r","o","l","M","a","s","t","e","r","=",
      "a","u","t","o">>
ControlPathPrefix ==
    <<"-","o","C","o","n","t","r","o","l","P","a","t","h","=">>
ControlPersist10m ==
    <<"-","o","C","o","n","t","r","o","l","P","e","r","s","i","s","t","=",
      "1","0","m">>
SockPrefix == <<"c","o","n","n","-">>
SockSuffix == <<".","s","o","c","k">>
XdgPrefix == <<"s","l","i","n","k">>
CacheHome == <<"/","h","o","m","e","/","u","/",".","c","a","c","h","e">>

\* PathBuf::push: an absolute right-hand side replaces the left-hand side
PathJoin(base, rel) ==
    IF rel # <<>> /\ Head(rel) = "/" THEN rel
    ELSE IF base # <<>> /\ base[Len(base)] = "/" THEN base \o rel
    ELSE base \o <<"/">> \o rel

\* a socket name that leaves the host out
sock_filename_fixed(host) == SockPrefix \o SockSuffix

\* format!("conn-{}.sock", host)
sock_filename(host) == SockPrefix \o host \o SockSuffix

\* dirs.place_cache_file(sock_filename): <cache home>/slink/<sock_filename>
sock_path(host) == PathJoin(PathJoin(CacheHome, XdgPrefix), sock_filename(host))

ssh_opts(host, fault) ==
    IF ~xdg_dirs(fault) \/ fault = "place_cache"
    THEN [panic |-> TRUE, opts |-> <<>>]
    ELSE [panic |-> FALSE,
          opts |-> <<ControlMasterAuto,
                     ControlPathPrefix \o sock_path(host),
                     ControlPersist10m>>]

\* std::process::Command under construction by a closure; panic records that
\* the closure unwound before the command was complete
CmdNew == [panic |-> FALSE, args |-> <<>>]
CmdPanic == [panic |-> TRUE, args |-> <<>>]
arg(cmd, a) == IF cmd.panic THEN cmd ELSE [cmd EXCEPT !.args = Append(@, a)]
cmd_args(cmd, as) == IF cmd.panic THEN cmd ELSE [cmd EXCEPT !.args = @ \o as]
\* cmd.args(ssh_opts(host))
args_opts(cmd, o) == IF o.panic THEN CmdPanic ELSE cmd_args(cmd, o.opts)
\* path.to_str().unwrap()
path_ok(p) == p.utf8

NoLaunch(r) == [res |-> r, execs |-> 0, prog |-> NoStr, args |-> <<>>]

\* process::run(command, closure): build the command with the closure, then
\* execute it once, inheriting stdio
process_run(command, cmd, fault) ==
    IF cmd.panic THEN NoLaunch(Panic)
    ELSE [res |-> IF fault = "process" THEN Err("process::Error")
                  ELSE Ok(NoStr),
          execs |-> 1, prog |-> command, args |-> cmd.args]

\* proc_result.map_err(|e| Error::ProcessError(e))
map_err(out) ==
    IF out.res.tag = "process::Error"
    THEN [out EXCEPT !.res = Err("ProcessError")]
    ELSE out

\* ssh_command_with_host forcing a PTY whatever stdout is
ssh_command_with_host_always_tty(host, ssh_closure, tty, fault) ==
    LET c1 == args_opts(CmdNew, ssh_opts(host, fault))
        c2 == arg(c1, DashT)
        c3 == arg(c2, DashQ)
        c4 == arg(c3, host)
        c5 == cmd_args(c4, ssh_closure)
    IN  map_err(process_run(SSH, c5, fault))

ssh_command_with_host(host, ssh_closure, tty, fault) ==
    LET c1 == args_opts(CmdNew, ssh_opts(host, fault))
        c2 == IF tty THEN arg(c1, DashT) ELSE c1
        c3 == arg(c2, DashQ)
        c4 == arg(c3, host)
        c5 == cmd_args(c4, ssh_closure)
    IN  map_err(process_run(SSH, c5, fault))

WithHost(h, out) ==
    [hostRes |-> h, res |-> out.res, execs |-> out.execs,
     prog |-> out.prog, args |-> out.args]

\* ssh_command going on with an empty host when get_host fails
ssh_command_unchecked(cfg, ssh_closure, tty, fault) ==
    LET h == get_host(cfg, fault)
    IN  WithHost(h, ssh_command_with_host(h.val, ssh_closure, tty, fault))

ssh_command(cfg, ssh_closure, tty, fault) ==
    LET h == get_host(cfg, fault)
    IN  IF h.tag # "Ok" THEN WithHost(h, NoLaunch(h))
        ELSE WithHost(h, ssh_command_with_host(h.val, ssh_closure, tty, fault))

\* scp running the closure before inserting the options
scp_opts_last(host, closure, fault) ==
    LET c1 == IF closure.panic THEN CmdPanic ELSE cmd_args(CmdNew, closure.args)
        c2 == args_opts(c1, ssh_opts(host, fault))
    IN  map_err(process_run(SCP, c2, fault))

scp(host, closure, fault) ==
    LET c1 == args_opts(CmdNew, ssh_opts(host, fault))
        c2 == IF closure.panic THEN CmdPanic ELSE cmd_args(c1, closure.args)
    IN  map_err(process_run(SCP, c2, fault))

\* format!("{}:{}", host, path)
host_colon_path(host, path) == host \o Colon \o path

scp_up(cfg, from, to, fault) ==
    LET h == get_host(cfg, fault)
        closure == IF path_ok(from) /\ path_ok(to)
                   THEN [panic |-> FALSE,
                         args |-> <<from.str, host_colon_path(h.val, to.str)>>]
                   ELSE CmdPanic
    IN  IF h.tag # "Ok" THEN WithHost(h, NoLaunch(h))
        ELSE WithHost(h, scp(h.val, closure, fault))

\* scp_down with the argument order of scp_up
scp_down_swapped(cfg, from, to, fault) ==
    LET h == get_host(cfg, fault)
        closure == IF path_ok(from) /\ path_ok(to)
                   THEN [panic |-> FALSE,
                         args |-> <<to.str, host_colon_path(h.val, from.str)>>]
                   ELSE CmdPanic
    IN  IF h.tag # "Ok" THEN WithHost(h, NoLaunch(h))
        ELSE WithHost(h, scp(h.val, closure, fault))

scp_down(cfg, from, to, fault) ==
    LET h == get_host(cfg, fault)
        closure == IF path_ok(from) /\ path_ok(to)
                   THEN [panic |-> FALSE,
                         args |-> <<host_colon_path(h.val, from.str), to.str>>]
                   ELSE CmdPanic
    IN  IF h.tag # "Ok" THEN WithHost(h, NoLaunch(h))
        ELSE WithHost(h, scp(h.val, closure, fault))

(***************************************************************************)
(* port.parse::<i32>()                                                     *)
(***************************************************************************)
I32Max == 2147483647
I32Min == -2147483647 - 1
DigitSeq == <<"0","1","2","3","4","5","6","7","8","9">>
IsDigit(c) == \E i \in 1..10 : DigitSeq[i] = c
DigitVal(c) == (CHOOSE i \in 1..10 : DigitSeq[i] = c) - 1
ParseErr == [ok |-> FALSE, val |-> 0]

\* result.checked_mul(10), then checked_add / checked_sub of the digit
RECURSIVE parse_digits(_, _, _)
parse_digits(s, acc, neg) ==
    IF s = <<>> THEN [ok |-> TRUE, val |-> acc]
    ELSE IF ~IsDigit(Head(s)) THEN ParseErr
    ELSE LET d == DigitVal(Head(s))
         IN  IF acc > I32Max \div 10 \/ acc < -(I32Max \div 10) THEN ParseErr
             ELSE IF neg
                  THEN IF acc * 10 < I32Min + d THEN ParseErr
                       ELSE parse_digits(Tail(s), acc * 10 - d, neg)
                  ELSE IF acc * 10 > I32Max - d THEN ParseErr
                       ELSE parse_digits(Tail(s), acc * 10 + d, neg)

parse_i32(s) ==
    IF s = <<>> THEN ParseErr
    ELSE IF Head(s) \in {"+", "-"}
         THEN IF Tail(s) = <<>> THEN ParseErr
              ELSE parse_digits(Tail(s), 0, Head(s) = "-")
    ELSE parse_digits(s, 0, FALSE)

LowPortLimit == 1024

\* format!("{}:127.0.0.1:{}", port, port)
forward_spec(port) == port \o Loopback \o port

LoopInit ==
    [has_low_port |-> FALSE, command |-> SSH, port_forwards |-> <<>>,
     panic |-> FALSE]

\* an iteration that lets the last port alone decide the escalation
loop_body_last(st, port) ==
    LET p == parse_i32(port)
        low == p.val < LowPortLimit
    IN  IF ~p.ok THEN [st EXCEPT !.panic = TRUE]
        ELSE [has_low_port |-> low,
              command |-> IF low THEN SUDO ELSE SSH,
              port_forwards |-> st.port_forwards \o <<DashL, forward_spec(port)>>,
              panic |-> FALSE]

\* one iteration of `for port in ports`
loop_body(st, port) ==
    LET p == parse_i32(port)
        low == p.val < LowPortLimit
    IN  IF ~p.ok THEN [st EXCEPT !.panic = TRUE]
        ELSE [has_low_port |-> IF low THEN TRUE ELSE st.has_low_port,
              command |-> IF low THEN SUDO ELSE st.command,
              port_forwards |-> st.port_forwards \o <<DashL, forward_spec(port)>>,
              panic |-> FALSE]

RECURSIVE port_loop(_, _)
port_loop(ports, st) ==
    IF ports = <<>> \/ st.panic THEN st
    ELSE port_loop(Tail(ports), loop_body(st, Head(ports)))

\* port_forward that never passes ssh to sudo
port_forward_no_ssh(cfg, ports, fault) ==
    LET h == get_host(cfg, fault)
        st == port_loop(ports, LoopInit)
        c1 == args_opts(CmdNew, ssh_opts(h.val, fault))
        c2 == arg(c1, DashN)
        c3 == cmd_args(c2, st.port_forwards)
        c4 == arg(c3, h.val)
    IN  IF h.tag # "Ok" THEN WithHost(h, NoLaunch(h))
        ELSE IF st.panic THEN WithHost(h, NoLaunch(Panic))
        ELSE WithHost(h, map_err(process_run(st.command, c4, fault)))

port_forward(cfg, ports, fault) ==
    LET h == get_host(cfg, fault)
        st == port_loop(ports, LoopInit)
        c0 == IF st.has_low_port THEN arg(CmdNew, SSH) ELSE CmdNew
        c1 == args_opts(c0, ssh_opts(h.val, fault))
        c2 == arg(c1, DashN)
        c3 == cmd_args(c2, st.port_forwards)
        c4 == arg(c3, h.val)
    IN  IF h.tag # "Ok" THEN WithHost(h, NoLaunch(h))
        ELSE IF st.panic THEN WithHost(h, NoLaunch(Panic))
        ELSE WithHost(h, map_err(process_run(st.command, c4, fault)))

(***************************************************************************)
(* Dispatch: the closures handed to ssh_command by the go and run commands *)
(***************************************************************************)
go_closure == <<>>
run_closure(command) == <<command>>

(***************************************************************************)
(* Inputs                                                                  *)
(***************************************************************************)
HostChars == {"a", "b", " "}
ExtraHosts == {<<"\n", "a", " ", "b", "\t">>}
HostStrings == StringsUpTo(HostChars, MaxHostLen) \cup ExtraHosts

Commands == {<<"l","s"," ","-","l">>, NoStr}

Utf8Path(s) == [utf8 |-> TRUE, str |-> s]
NonUtf8Path == [utf8 |-> FALSE, str |-> NoStr]
LocalPaths == {Utf8Path(<<"/","a","/","b">>), NonUtf8Path}
RemotePaths == {Utf8Path(<<"/","c","/","d">>), NonUtf8Path}

Port22 == <<"2","2">>
Port1023 == <<"1","0","2","3">>
Port1024 == <<"1","0","2","4">>
Port8080 == <<"8","0","8","0">>
PortX == <<"x">>
PortStrings == {Port22, Port1023, Port1024, Port8080, PortX}
PortLists == ListsUpTo(PortStrings, MaxPorts)

SetFaults == {"none", "xdg", "place_config", "create", "write"}
GetFaults == {"none", "xdg", "open", "read"}
OpFaults == GetFaults \cup {"place_cache", "process"}

NoInp ==
    [host |-> NoStr, command |-> NoStr, tty |-> FALSE,
     from |-> NonUtf8Path, to |-> NonUtf8Path, ports |-> <<>>,
     fault |-> "none"]

(***************************************************************************)
(* State machine                                                           *)
(***************************************************************************)
Init ==
    /\ config = NoFile
    /\ lastSet = [called |-> FALSE, ok |-> FALSE, host |-> NoStr]
    /\ op = "idle"
    /\ inp = NoInp
    /\ hostRes = NotCalled
    /\ res = NotCalled
    /\ execs = 0
    /\ prog = NoStr
    /\ args = <<>>

SetHost ==
    \E host \in HostStrings, fault \in SetFaults :
        LET out == set_host(config, host, fault)
        IN  /\ op = "idle"
            /\ config' = out.config
            /\ lastSet' = IF out.res.tag = "Ok"
                          THEN [called |-> TRUE, ok |-> TRUE, host |-> host]
                          ELSE [called |-> TRUE, ok |-> FALSE, host |-> NoStr]
            /\ op' = "set_host"
            /\ inp' = [NoInp EXCEPT !.host = host, !.fault = fault]
            /\ hostRes' = NotCalled
            /\ res' = out.res
            /\ execs' = 0
            /\ prog' = NoStr
            /\ args' = <<>>

GetHost ==
    \E fault \in GetFaults :
        LET out == get_host(config, fault)
        IN  /\ op = "idle"
            /\ op' = "get_host"
            /\ inp' = [NoInp EXCEPT !.fault = fault]
            /\ hostRes' = out
            /\ res' = out
            /\ execs' = 0
            /\ prog' = NoStr
            /\ args' = <<>>
            /\ UNCHANGED <<config, lastSet>>

\* a remote operation: reads the slot, launches at most one process
Remote(name, in, out) ==
    /\ op = "idle"
    /\ op' = name
    /\ inp' = in
    /\ hostRes' = out.hostRes
    /\ res' = out.res
    /\ execs' = out.execs
    /\ prog' = out.prog
    /\ args' = out.args
    /\ UNCHANGED <<config, lastSet>>

Go ==
    \E tty \in BOOLEAN, fault \in OpFaults :
        Remote("go", [NoInp EXCEPT !.tty = tty, !.fault = fault],
               ssh_command(config, go_closure, tty, fault))

Run ==
    \E command \in Commands, tty \in BOOLEAN, fault \in OpFaults :
        Remote("run",
               [NoInp EXCEPT !.command = command, !.tty = tty, !.fault = fault],
               ssh_command(config, run_closure(command), tty, fault))

ScpUp ==
    \E from \in LocalPaths, to \in RemotePaths, fault \in OpFaults :
        Remote("scp_up",
               [NoInp EXCEPT !.from = from, !.to = to, !.fault = fault],
               scp_up(config, from, to, fault))

ScpDown ==
    \E from \in RemotePaths, to \in LocalPaths, fault \in OpFaults :
        Remote("scp_down",
               [NoInp EXCEPT !.from = from, !.to = to, !.fault = fault],
               scp_down(config, from, to, fault))

PortForward ==
    \E ports \in PortLists, fault \in OpFaults :
        Remote("port_forward",
               [NoInp EXCEPT !.ports = ports, !.fault = fault],
               port_forward(config, ports, fault))

\* the invocation ends: the process exits and only the persisted slot remains
Exit ==
    /\ op # "idle"
    /\ op' = "idle"
    /\ inp' = NoInp
    /\ hostRes' = NotCalled
    /\ res' = NotCalled
    /\ execs' = 0
    /\ prog' = NoStr
    /\ args' = <<>>
    /\ UNCHANGED <<config, lastSet>>

Next ==
    \/ SetHost
    \/ GetHost
    \/ Go
    \/ Run
    \/ ScpUp
    \/ ScpDown
    \/ PortForward
    \/ Exit

Spec == Init /\ [][Next]_vars

(***************************************************************************)
(* Properties                                                              *)
(***************************************************************************)
RemoteOps == {"go", "run", "scp_up", "scp_down", "port_forward"}

\* s without its leading and trailing whitespace, stated by positions
Stripped(s) ==
    LET keep == {i \in DOMAIN s : ~IsWhitespace(s[i])}
    IN  IF keep = {} THEN <<>>
        ELSE SubSeq(s, CHOOSE i \in keep : \A j \in keep : i <= j,
                       CHOOSE i \in keep : \A j \in keep : j <= i)

IsPrefix(p, s) == Len(p) <= Len(s) /\ SubSeq(s, 1, Len(p)) = p
IsStrictPrefix(p, s) == Len(p) < Len(s) /\ SubSeq(s, 1, Len(p)) = p

\* the host the launched command was built for
ActiveHost == hostRes.val

\* the three base options, written out
BaseOptions(h) ==
    <<ControlMasterAuto,
      ControlPathPrefix \o CacheHome
          \o <<"/","s","l","i","n","k","/","c","o","n","n","-">> \o h
          \o <<".","s","o","c","k">>,
      ControlPersist10m>>

\* C1: once the most recent set_host(h) has succeeded, the slot holds h and a
\* newline and nothing else, and every get_host (direct or inside a remote
\* operation) that returns Ok returns exactly h without its leading and
\* trailing whitespace; it returns Ok whenever reading does not fail, and
\* never reports that no host is configured.
C1_RoundTrip ==
    lastSet.ok =>
        /\ config = [exists |-> TRUE, data |-> lastSet.host \o <<"\n">>]
        /\ hostRes.tag # "NotCalled" =>
              /\ hostRes.tag = "Ok" => hostRes.val = Stripped(lastSet.host)
              /\ inp.fault \notin {"xdg", "open", "read"} => hostRes.tag = "Ok"
              /\ hostRes.tag # "NoConfigFile"
              /\ op = "get_host" => res = hostRes

\* set_host("\na b\t") succeeded and get_host returns "a b"
C1_Witness ==
    /\ op = "get_host"
    /\ lastSet.ok
    /\ lastSet.host = <<"\n", "a", " ", "b", "\t">>
    /\ res = Ok(<<"a", " ", "b">>)

\* C2: get_host on a store where set_host was never called returns
\* NoConfigFile (not a read error, not an empty string) whenever it returns;
\* after a successful set_host("") it returns Ok("") instead.
C2_AbsentIsNotEmpty ==
    op = "get_host" =>
        /\ ~lastSet.called =>
              /\ res.tag \in {"NoConfigFile", "Panic"}
              /\ inp.fault # "xdg" => res = Err("NoConfigFile")
        /\ (lastSet.ok /\ lastSet.host = <<>> /\ inp.fault = "none") =>
              res = Ok(<<>>)

C2_Witness ==
    /\ op = "get_host"
    /\ ~lastSet.called
    /\ inp.fault = "read"
    /\ res = Err("NoConfigFile")

\* C3: in every remote operation, a failure of get_host (NoConfigFile or
\* FailedConfigRead) is the operation's result and no process is executed;
\* a process is executed only after get_host returned Ok, and at most once.
C3_NoExecWithoutHost ==
    op \in RemoteOps =>
        /\ hostRes.tag \in {"NoConfigFile", "FailedConfigRead"} =>
              /\ res = hostRes
              /\ execs = 0
              /\ prog = NoStr
              /\ args = <<>>
        /\ execs > 0 => hostRes.tag = "Ok"
        /\ execs <= 1

C3_Witness ==
    /\ op = "port_forward"
    /\ inp.ports = <<Port22, Port8080>>
    /\ inp.fault = "none"
    /\ res = Err("NoConfigFile")
    /\ execs = 0

\* the forward arguments the claim names: -L and port:127.0.0.1:port per port
Forwards(ports) ==
    [i \in 1..(2 * Len(ports)) |->
        IF i % 2 = 1 THEN <<"-", "L">>
        ELSE ports[i \div 2] \o Loopback \o ports[i \div 2]]

AnyLowPort(ports) == \E i \in DOMAIN ports : parse_i32(ports[i]).val < 1024

\* C4: a port forward that launches a process launches sudo with ssh as first
\* argument iff some requested port is below 1024, and ssh otherwise; the
\* remaining arguments are the base options, -N, the forwards in request
\* order, then the host.
C4_PortForwardArgs ==
    (op = "port_forward" /\ execs = 1) =>
        LET rest == BaseOptions(ActiveHost) \o <<DashN>>
                        \o Forwards(inp.ports) \o <<ActiveHost>>
        IN  /\ AnyLowPort(inp.ports) =>
                  prog = SUDO /\ args = <<SSH>> \o rest
            /\ ~AnyLowPort(inp.ports) =>
                  prog = SSH /\ args = rest

\* the low port comes last in the batch
C4_Witness ==
    /\ op = "port_forward"
    /\ execs = 1
    /\ inp.ports = <<Port8080, Port1023>>
    /\ prog = SUDO
    /\ args[1] = SSH

Spec22 == <<"2","2",":","1","2","7",".","0",".","0",".","1",":","2","2">>
Spec8080 ==
    <<"8","0","8","0",":","1","2","7",".","0",".","0",".","1",":",
      "8","0","8","0">>
PortForward22And8080 ==
    op = "port_forward" /\ execs = 1 /\ inp.ports = <<Port22, Port8080>>

\* C5 as stated: for ports [22, 8080] the program is ssh itself and the
\* argument vector holds exactly the two forward specs -L22:127.0.0.1:22 and
\* -L8080:127.0.0.1:8080.
C5_Original ==
    PortForward22And8080 =>
        /\ prog = SSH
        /\ {i \in DOMAIN args : IsPrefix(DashL, args[i])} # {}
        /\ {args[i] : i \in {j \in DOMAIN args : IsPrefix(DashL, args[j])}}
               = {DashL \o Spec22, DashL \o Spec8080}

\* C5 amended: for ports [22, 8080] the program is sudo with ssh as first
\* argument (22 is below 1024), and the argument vector holds exactly two
\* forwards, each as the argument -L followed by the argument
\* port:127.0.0.1:port, for 22 and then for 8080.
C5_Amended ==
    PortForward22And8080 =>
        LET flags == {i \in DOMAIN args : IsPrefix(DashL, args[i])}
        IN  /\ prog = SUDO
            /\ args[1] = SSH
            /\ Cardinality(flags) = 2
            /\ \A i \in flags : args[i] = DashL /\ i < Len(args)
            /\ \E i, j \in flags :
                  i < j /\ args[i + 1] = Spec22 /\ args[j + 1] = Spec8080

C5_Witness ==
    /\ PortForward22And8080
    /\ prog = SUDO
    /\ Len(args) = 10

\* C6: an interactive session or remote command that launches a process
\* launches ssh with exactly: base options, -t iff stdout is a terminal, -q,
\* the host, and for a remote command the command as one final argument.
C6_SshArgs ==
    (op \in {"go", "run"} /\ execs = 1) =>
        /\ prog = SSH
        /\ args = BaseOptions(ActiveHost)
                    \o (IF inp.tty THEN <<DashT>> ELSE <<>>)
                    \o <<DashQ, ActiveHost>>
                    \o (IF op = "run" THEN <<inp.command>> ELSE <<>>)

C6_Witness ==
    /\ op = "run"
    /\ execs = 1
    /\ ~inp.tty
    /\ inp.command = <<"l","s"," ","-","l">>
    /\ args[Len(args)] = <<"l","s"," ","-","l">>
    /\ Len(args) = 6

\* C7: an upload that launches a process launches scp with exactly the base
\* options, the local path, host:remote; a download launches scp with exactly
\* the base options, host:remote, the local path; the host is the active host.
C7_ScpArgs ==
    /\ (op = "scp_up" /\ execs = 1) =>
          /\ prog = SCP
          /\ args = BaseOptions(ActiveHost)
                      \o <<inp.from.str, ActiveHost \o <<":">> \o inp.to.str>>
    /\ (op = "scp_down" /\ execs = 1) =>
          /\ prog = SCP
          /\ args = BaseOptions(ActiveHost)
                      \o <<ActiveHost \o <<":">> \o inp.from.str, inp.to.str>>

C7_Witness ==
    /\ op = "scp_down"
    /\ execs = 1
    /\ ActiveHost = <<"a", "b">>
    /\ args[4] = <<"a","b",":","/","c","/","d">>
    /\ args[5] = <<"/","a","/","b">>

\* the control-socket paths in an argument vector
ControlPaths(as) ==
    {SubSeq(as[i], Len(ControlPathPrefix) + 1, Len(as[i])) :
        i \in {j \in DOMAIN as : IsPrefix(ControlPathPrefix, as[j])}}

ControlPathFor(h) == ControlPaths(ssh_opts(h, "none").opts)

\* C8: every launched command carries one control-socket path, and it is not
\* the path ssh_opts derives for any other host string.
C8_SocketPerHost ==
    execs = 1 =>
        /\ Cardinality(ControlPaths(args)) = 1
        /\ ControlPaths(args) = ControlPathFor(ActiveHost)
        /\ \A h2 \in HostStrings \cup {Stripped(h) : h \in HostStrings} :
              h2 # ActiveHost => ControlPathFor(h2) # ControlPaths(args)

C8_Witness ==
    /\ execs = 1
    /\ op = "go"
    /\ ActiveHost = <<"a", " ", "b">>
    /\ lastSet.ok

\* C9 as stated: the base options are a strict prefix of the argument vector
\* of every launched command, escalated port forwards included.
C9_Original ==
    execs = 1 => IsStrictPrefix(BaseOptions(ActiveHost), args)

\* C9 amended: the base options are a strict prefix of the argument vector of
\* every launched command except an escalated port forward, where the vector
\* handed to sudo starts with ssh and the base options follow it directly.
C9_Amended ==
    execs = 1 =>
        /\ prog # SUDO => IsStrictPrefix(BaseOptions(ActiveHost), args)
        /\ prog = SUDO =>
              /\ args[1] = SSH
              /\ IsStrictPrefix(BaseOptions(ActiveHost), Tail(args))
              /\ ~IsPrefix(BaseOptions(ActiveHost), args)

C9_Witness ==
    /\ execs = 1
    /\ op = "scp_up"
    /\ Len(args) = 5
    /\ args[1] = ControlMasterAuto
    /\ args[3] = ControlPersist10m

\* C10: every core operation returns Ok or an Error value, whatever the
\* input and the environment failure; set_host returns FailedConfigWrite
\* when its storage location cannot be created.
C10_AlwaysReturns ==
    /\ res.tag \in {"Ok", "NotCalled"} \cup ErrorTags
    /\ (op = "set_host" /\ inp.fault = "place_config") =>
          res.tag = "FailedConfigWrite"

====
